---- MODULE Spec2Model ----
(***************************************************************************)
(* Model of optuna's multi-objective core:                                 *)
(*   optuna/study/_multi_objective.py   dominance and Pareto fronts        *)
(*   optuna/samplers/_nsgaiii/_sampler.py   NSGAIIISampler                 *)
(***************************************************************************)
EXTENDS Integers, Sequences, FiniteSets, TLC

(* ---------------------------- bounds ----------------------------------- *)
MaxObjectives == 2     \* longest value vector / directions vector (dominance)
MaxTrials == 3         \* longest trial list handed to a Pareto-front query
MaxValue == 2          \* second objective of the two-path comparison: 0..MaxValue
MaxFrontTrials == 2    \* longest trial list of a query through the dispatcher
MaxDirs == 2           \* longest directions vector of a query through the dispatcher
MaxFrontValue == 1     \* objective values of those queries: 0..MaxFrontValue
MaxPopulation == 2     \* population_size arguments range over 0..MaxPopulation
MaxParents == 3        \* n_parents of a crossover ranges over 1..MaxParents
MaxStudyTrials == 3    \* trials a study of the sampler run may hold
MaxGeneration == 2     \* highest generation index of the sampler run

(* ------------------------- python values ------------------------------- *)
\* Optional[T]: None, or a value
None == [some |-> FALSE]
Some(x) == [some |-> TRUE, val |-> x]

\* outcome of a call: a returned value or a raised exception
Return(v) == [exc |-> "", val |-> v]
Raise(e) == [exc |-> e, val |-> FALSE]
NotCalled == [exc |-> "not called", val |-> FALSE]
Called(r) == r.exc # "not called"
Returned(r) == r.exc = ""
Raised(r) == r.exc \notin {"", "not called"}

\* float("inf"); -Inf is float("-inf")
Inf == 1000000

COMPLETE == "COMPLETE"
TrialState == {"RUNNING", "COMPLETE", "PRUNED", "FAIL", "WAITING"}
StudyDirection == {"MINIMIZE", "MAXIMIZE"}

\* FrozenTrial: number, state, values (None or a list), and the constraint
\* vector stored under system_attrs["constraints"] (None when absent)
FrozenTrial(n, s, v, c) == [number |-> n, state |-> s, values |-> v, constraints |-> c]

SeqsUpTo(S, lo, hi) == UNION {[1..n -> S] : n \in lo..hi}

(* ------------------- optuna/study/_multi_objective.py ------------------ *)
\* _normalize_value without the sign change for MAXIMIZE
_normalize_value_unsigned(value, direction) ==
    IF ~value.some THEN Inf ELSE value.val

_normalize_value(value, direction) ==
    LET v1 == IF ~value.some THEN Inf ELSE value.val
    IN IF direction = "MAXIMIZE" THEN -v1 ELSE v1

\* [_normalize_value(v, d) for v, d in zip(values, directions)]
NormalizedValues(values, directions) ==
    LET n == IF Len(values) < Len(directions) THEN Len(values) ELSE Len(directions)
    IN [i \in 1..n |-> _normalize_value(Some(values[i]), directions[i])]

\* _dominates without the test for equal normalised vectors
_dominates_without_equality_test(trial0, trial1, directions) ==
    IF ~trial0.values.some \/ ~trial1.values.some THEN Raise("AssertionError")
    ELSE LET values0 == trial0.values.val
             values1 == trial1.values.val
         IN IF Len(values0) # Len(values1) THEN Raise("ValueError")
            ELSE IF Len(values0) # Len(directions) THEN Raise("ValueError")
            ELSE IF trial0.state # COMPLETE THEN Return(FALSE)
            ELSE IF trial1.state # COMPLETE THEN Return(TRUE)
            ELSE LET normalized_values0 == NormalizedValues(values0, directions)
                     normalized_values1 == NormalizedValues(values1, directions)
                 IN Return(\A i \in 1..Len(normalized_values0) :
                               normalized_values0[i] <= normalized_values1[i])

_dominates(trial0, trial1, directions) ==
    IF ~trial0.values.some \/ ~trial1.values.some THEN Raise("AssertionError")
    ELSE LET values0 == trial0.values.val
             values1 == trial1.values.val
         IN IF Len(values0) # Len(values1) THEN Raise("ValueError")
            ELSE IF Len(values0) # Len(directions) THEN Raise("ValueError")
            ELSE IF trial0.state # COMPLETE THEN Return(FALSE)
            ELSE IF trial1.state # COMPLETE THEN Return(TRUE)
            ELSE LET normalized_values0 == NormalizedValues(values0, directions)
                     normalized_values1 == NormalizedValues(values1, directions)
                 IN IF normalized_values0 = normalized_values1 THEN Return(FALSE)
                    ELSE Return(\A i \in 1..Len(normalized_values0) :
                                    normalized_values0[i] <= normalized_values1[i])

\* [t for t in trials if t.state == TrialState.COMPLETE]
CompleteTrials(trials) == SelectSeq(trials, LAMBDA t : t.state = COMPLETE)

\* _get_feasible_trials with any() in place of all()
_get_feasible_trials_any(trials) ==
    SelectSeq(trials, LAMBDA t :
        \/ ~t.constraints.some
        \/ \E i \in 1..Len(t.constraints.val) : t.constraints.val[i] <= 0)

_get_feasible_trials(trials) ==
    SelectSeq(trials, LAMBDA t :
        \/ ~t.constraints.some
        \/ \A i \in 1..Len(t.constraints.val) : t.constraints.val[i] <= 0)

\* the trials both paths work on after their first three statements
Candidates(trials, consider_constraint) ==
    IF consider_constraint THEN _get_feasible_trials(CompleteTrials(trials))
    ELSE CompleteTrials(trials)

\* tuple comparison a < b
RECURSIVE LexLess(_, _)
LexLess(a, b) ==
    IF a = <<>> \/ b = <<>> THEN a = <<>> /\ b # <<>>
    ELSE IF Head(a) < Head(b) THEN TRUE
    ELSE IF Head(a) > Head(b) THEN FALSE
    ELSE LexLess(Tail(a), Tail(b))

\* list.sort(key=...) is stable: an item goes after every item whose key is
\* not greater than its own
RECURSIVE InsertByKey(_, _)
InsertByKey(sorted, p) ==
    IF sorted = <<>> THEN <<p>>
    ELSE IF LexLess(p.key, Head(sorted).key) THEN <<p>> \o sorted
    ELSE <<Head(sorted)>> \o InsertByKey(Tail(sorted), p)

RECURSIVE SortPairs(_, _)
SortPairs(pairs, sorted) ==
    IF pairs = <<>> THEN sorted
    ELSE SortPairs(Tail(pairs), InsertByKey(sorted, Head(pairs)))

SortedByKey(pairs) == LET s == SortPairs(pairs, <<>>) IN [i \in 1..Len(s) |-> s[i].item]

\* the key lambda of trials.sort in the two-objective path; evaluating it
\* fails on a trial with no values or with fewer than two values
SortKey2d(trial, directions) ==
    IF ~trial.values.some THEN Raise("TypeError")
    ELSE IF Len(trial.values.val) < 2 \/ Len(directions) < 2 THEN Raise("IndexError")
    ELSE Return(<<_normalize_value(Some(trial.values.val[1]), directions[1]),
                  _normalize_value(Some(trial.values.val[2]), directions[2])>>)

\* the sweep without the update of last_nondominated_trial
RECURSIVE Sweep2d_first_only(_, _, _, _, _)
Sweep2d_first_only(trials, i, last_nondominated_trial, pareto_front, directions) ==
    IF i > Len(trials) THEN Return(pareto_front)
    ELSE LET trial == trials[i]
             d == _dominates(last_nondominated_trial, trial, directions)
         IN IF d.exc # "" THEN d
            ELSE IF d.val
                 THEN Sweep2d_first_only(trials, i + 1, last_nondominated_trial,
                                         pareto_front, directions)
                 ELSE Sweep2d_first_only(trials, i + 1, last_nondominated_trial,
                                         Append(pareto_front, trial), directions)

\* the sweep: for i in range(1, n_trials)
RECURSIVE Sweep2d(_, _, _, _, _)
Sweep2d(trials, i, last_nondominated_trial, pareto_front, directions) ==
    IF i > Len(trials) THEN Return(pareto_front)
    ELSE LET trial == trials[i]
             d == _dominates(last_nondominated_trial, trial, directions)
         IN IF d.exc # "" THEN d
            ELSE IF d.val
                 THEN Sweep2d(trials, i + 1, last_nondominated_trial, pareto_front, directions)
                 ELSE Sweep2d(trials, i + 1, trial, Append(pareto_front, trial), directions)

\* pareto_front.sort(key=lambda trial: trial.number)
SortByNumber(ts) == SortedByKey([i \in 1..Len(ts) |-> [key |-> <<ts[i].number>>, item |-> ts[i]]])

_get_pareto_front_trials_2d(trials0, directions, consider_constraint) ==
    LET trials == Candidates(trials0, consider_constraint)
        n_trials == Len(trials)
        keys == [i \in 1..n_trials |-> SortKey2d(trials[i], directions)]
        bad == {i \in 1..n_trials : keys[i].exc # ""}
    IN IF n_trials = 0 THEN Return(<<>>)
       ELSE IF bad # {} THEN Raise(keys[CHOOSE i \in bad : \A j \in bad : i <= j].exc)
       ELSE LET sorted == SortedByKey([i \in 1..n_trials |->
                                          [key |-> keys[i].val, item |-> trials[i]]])
                swept == Sweep2d(sorted, 2, sorted[1], <<sorted[1]>>, directions)
            IN IF swept.exc # "" THEN swept ELSE Return(SortByNumber(swept.val))

\* the inner loop: for other in trials
RECURSIVE DominatedByAny(_, _, _, _)
DominatedByAny(trial, trials, j, directions) ==
    IF j > Len(trials) THEN Return(FALSE)
    ELSE LET d == _dominates(trials[j], trial, directions)
         IN IF d.exc # "" THEN d
            ELSE IF d.val THEN Return(TRUE)
            ELSE DominatedByAny(trial, trials, j + 1, directions)

\* the outer loop: for trial in trials
RECURSIVE LoopNd(_, _, _, _)
LoopNd(trials, i, pareto_front, directions) ==
    IF i > Len(trials) THEN Return(pareto_front)
    ELSE LET dominated == DominatedByAny(trials[i], trials, 1, directions)
         IN IF dominated.exc # "" THEN dominated
            ELSE IF ~dominated.val
                 THEN LoopNd(trials, i + 1, Append(pareto_front, trials[i]), directions)
                 ELSE LoopNd(trials, i + 1, pareto_front, directions)

_get_pareto_front_trials_nd(trials0, directions, consider_constraint) ==
    LoopNd(Candidates(trials0, consider_constraint), 1, <<>>, directions)

_get_pareto_front_trials_by_trials(trials, directions, consider_constraint) ==
    IF Len(directions) = 2
    THEN _get_pareto_front_trials_2d(trials, directions, consider_constraint)
    ELSE _get_pareto_front_trials_nd(trials, directions, consider_constraint)


(* --------------- optuna/samplers/_nsgaiii/_sampler.py ------------------ *)
\* A strategy argument is None, a callable ("custom"), an object that is not
\* callable and truthy ("noncallable"), or one that is not callable and falsy
\* ("falsy", such as 0).  The strategy a sampler holds is "default" (the NSGA
\* strategy object built by the constructor) or the argument itself.
StrategyArgs == {"None", "custom", "noncallable", "falsy"}
Callable(strategy) == strategy \in {"default", "custom"}

\* override or Default(...)
OrDefault(override) == IF override \in {"None", "falsy"} THEN "default" ELSE override

\* crossover argument: None, a BaseCrossover with its n_parents, or another object
CrossoverArgs ==
    {[kind |-> "None", n_parents |-> 0], [kind |-> "other", n_parents |-> 0]}
    \cup {[kind |-> "BaseCrossover", n_parents |-> n] : n \in 1..MaxParents}

\* NSGAIIISampler.__init__; uniform_n_parents is UniformCrossover.n_parents
__init__(population_size, crossover_arg, elite_population_selection_strategy, child_generation_strategy, after_trial_strategy, uniform_n_parents) ==
    IF population_size < 2 THEN Raise("ValueError")
    ELSE LET crossover == IF crossover_arg.kind = "None"
                          THEN [kind |-> "BaseCrossover", n_parents |-> uniform_n_parents]
                          ELSE crossover_arg
         IN IF crossover.kind # "BaseCrossover" THEN Raise("ValueError")
            ELSE IF population_size < crossover.n_parents THEN Raise("ValueError")
            ELSE Return([_population_size |-> population_size,
                         _elite_population_selection_strategy |->
                             OrDefault(elite_population_selection_strategy),
                         _child_generation_strategy |-> OrDefault(child_generation_strategy),
                         _after_trial_strategy |-> OrDefault(after_trial_strategy)])

\* A study of the sampler run: trials (number i - 1 at position i) with their
\* generation tag, the memo of parent populations per generation, and
\* the calls an operation makes to the strategies and the fallback sampler.
Min(a, b) == IF a < b THEN a ELSE b

\* outcome of a call that works on the study: exception or value, and the
\* study and call record it leaves behind
Out(e, v, st) == [exc |-> e, val |-> v, env |-> st]

\* elite-selection strategy: some subsequence of the candidates of at most
\* population_size trials; pick is the strategy's choice
EliteSelection(pick, candidates, population_size) ==
    IF pick = "none" THEN <<>>
    ELSE IF pick = "head" THEN SubSeq(candidates, 1, Min(population_size, Len(candidates)))
    ELSE SubSeq(candidates, Len(candidates) - Min(population_size, Len(candidates)) + 1,
                Len(candidates))

\* child-generation strategy: a value for every name of the search space
ChildGeneration(search_space, parent_population) ==
    [name \in search_space |-> parent_population[1]]

\* BaseGASampler.get_population: the trials tagged with the generation
get_population(st, generation) ==
    LET tagged == SelectSeq(st.trials, LAMBDA t : t.generation = Some(generation))
    IN [i \in 1..Len(tagged) |-> tagged[i].number]

RECURSIVE get_parent_population(_, _, _, _)
RECURSIVE select_parent(_, _, _, _)

\* select_parent over the previous population alone
select_parent_population_only(self, st, generation, pick) ==
    LET candidates == get_population(st, generation - 1)
        elite == EliteSelection(pick, candidates, self._population_size)
    IN IF ~Callable(self._elite_population_selection_strategy) THEN Out("TypeError", <<>>, st)
       ELSE Out("", elite,
                [st EXCEPT !.calls =
                    Append(@, [callee |-> "elite_population_selection_strategy",
                               args |-> <<candidates>>, result |-> elite])])

\* NSGAIIISampler.select_parent
select_parent(self, st, generation, pick) ==
    LET population == get_population(st, generation - 1)
        parents == get_parent_population(self, st, generation - 1, pick)
    IN IF parents.exc # "" THEN parents
       ELSE IF ~Callable(self._elite_population_selection_strategy)
            THEN Out("TypeError", <<>>, parents.env)
       ELSE LET candidates == population \o parents.val
                elite == EliteSelection(pick, candidates, self._population_size)
            IN Out("", elite,
                   [parents.env EXCEPT !.calls =
                       Append(@, [callee |-> "elite_population_selection_strategy",
                                  args |-> <<candidates>>, result |-> elite])])

\* BaseGASampler.get_parent_population: empty for generation 0, else the memo,
\* else select_parent, whose result is stored in the memo
get_parent_population(self, st, generation, pick) ==
    IF generation = 0 THEN Out("", <<>>, st)
    ELSE IF st.cache[generation].some THEN Out("", st.cache[generation].val, st)
    ELSE LET selected == select_parent(self, st, generation, pick)
         IN IF selected.exc # "" THEN selected
            ELSE Out("", selected.val,
                     [selected.env EXCEPT !.cache[generation] = Some(selected.val)])

MaxGenerationOf(st) ==
    LET gens == {st.trials[i].generation.val :
                    i \in {j \in 1..Len(st.trials) : st.trials[j].generation.some}}
    IN IF gens = {} THEN 0 ELSE CHOOSE g \in gens : \A h \in gens : h <= g

\* BaseGASampler.get_trial_generation: the trial's tag; an untagged trial is
\* tagged 0 in an empty run, else with the newest generation or the one after it
\* (advance is the tracker's decision that the newest generation is closed)
get_trial_generation(st, number, advance) ==
    LET trial == st.trials[number + 1]
        tagged == \E i \in 1..Len(st.trials) : st.trials[i].generation.some
        generation == IF trial.generation.some THEN trial.generation.val
                      ELSE IF ~tagged THEN 0
                      ELSE IF advance THEN MaxGenerationOf(st) + 1
                      ELSE MaxGenerationOf(st)
    IN Out("", generation, [st EXCEPT !.trials[number + 1].generation = Some(generation)])

\* NSGAIIISampler.sample_relative
sample_relative(self, st, number, search_space, advance, pick) ==
    LET generation == get_trial_generation(st, number, advance)
        parent_population == get_parent_population(self, generation.env, generation.val, pick)
    IN IF parent_population.exc # "" THEN parent_population
       ELSE IF Len(parent_population.val) = 0 THEN Out("", <<>>, parent_population.env)
       ELSE IF ~Callable(self._child_generation_strategy)
            THEN Out("TypeError", <<>>, parent_population.env)
       ELSE LET params == ChildGeneration(search_space, parent_population.val)
            IN Out("", params,
                   [parent_population.env EXCEPT !.calls =
                       Append(@, [callee |-> "child_generation_strategy",
                                  args |-> <<search_space, parent_population.val>>,
                                  result |-> params])])

\* after_trial without its assertion
after_trial_unchecked(self, st, number, state, values) ==
    IF ~Callable(self._after_trial_strategy) THEN Out("TypeError", FALSE, st)
    ELSE Out("", FALSE,
             [st EXCEPT !.calls =
                 @ \o <<[callee |-> "after_trial_strategy",
                         args |-> <<number, state, values>>, result |-> None],
                        [callee |-> "random_sampler.after_trial",
                         args |-> <<number, state, values>>, result |-> None]>>])

\* NSGAIIISampler.after_trial
after_trial(self, st, number, state, values) ==
    IF state \notin {"COMPLETE", "FAIL", "PRUNED"} THEN Out("AssertionError", FALSE, st)
    ELSE IF ~Callable(self._after_trial_strategy) THEN Out("TypeError", FALSE, st)
    ELSE Out("", FALSE,
             [st EXCEPT !.calls =
                 @ \o <<[callee |-> "after_trial_strategy",
                         args |-> <<number, state, values>>, result |-> None],
                        [callee |-> "random_sampler.after_trial",
                         args |-> <<number, state, values>>, result |-> None]>>])

(* ------------------------------ state ---------------------------------- *)
VARIABLES
    trials,               \* the trial list of the call (trial0, trial1 for _dominates)
    directions,           \* the study directions of the call
    consider_constraint,  \* the flag of the call
    retDom,               \* outcome of _dominates(trials[1], trials[2], directions)
    ret2d,                \* outcome of _get_pareto_front_trials_2d
    retNd,                \* outcome of _get_pareto_front_trials_nd
    retFront,             \* outcome of _get_pareto_front_trials_by_trials
    ctor,                 \* arguments and outcome of NSGAIIISampler(...)
    sampler,              \* the constructed sampler (None before construction)
    study,                \* trials and parent-population memo of the run, and the
                          \* calls the last sampler operation made to its collaborators
    last                  \* the last sampler operation: name, arguments and outcome

frontVars == <<trials, directions, consider_constraint, retDom, ret2d, retNd, retFront>>
samplerVars == <<ctor, sampler, study, last>>
vars == <<frontVars, samplerVars>>

EmptyStudy ==
    [trials |-> <<>>, cache |-> [g \in 1..(MaxGeneration + 1) |-> None], calls |-> <<>>]

NoOperation == [op |-> "none", args |-> <<>>, exc |-> "", val |-> FALSE]

NoCalls ==
    /\ retDom = NotCalled
    /\ ret2d = NotCalled
    /\ retNd = NotCalled
    /\ retFront = NotCalled

\* the sampler is not part of a run of the dominance and front functions
NoSampler ==
    /\ ctor = NotCalled
    /\ sampler = None
    /\ study = EmptyStudy
    /\ last = NoOperation

\* no dominance or front query is part of a run of the sampler
NoQuery ==
    /\ trials = <<>>
    /\ directions = <<>>
    /\ consider_constraint = FALSE
    /\ NoCalls

(* ---------------------- dominance: inputs and call --------------------- *)
\* values of the scenario of the mixed-direction example
ObjectiveValues == {1, 2, 5, 10}
DomStates == {"COMPLETE", "RUNNING", "PRUNED"}
DomValues == {None} \cup {Some(v) : v \in SeqsUpTo(ObjectiveValues, 1, MaxObjectives)}
\* a COMPLETE trial always has its values recorded
DomBodies == {b \in DomStates \X DomValues : b[1] = COMPLETE => b[2].some}
DomDirections == SeqsUpTo(StudyDirection, 1, MaxObjectives)

InitDom ==
    /\ trials \in {<<FrozenTrial(0, b0[1], b0[2], None), FrozenTrial(1, b1[1], b1[2], None)>> :
                      b0 \in DomBodies, b1 \in DomBodies}
    /\ directions \in DomDirections
    /\ consider_constraint = FALSE
    /\ NoCalls
    /\ NoSampler

CallDominates ==
    /\ ~Called(retDom)
    /\ retDom' = _dominates(trials[1], trials[2], directions)
    /\ UNCHANGED <<trials, directions, consider_constraint, ret2d, retNd, retFront, samplerVars>>

NextDom == CallDominates
SpecDom == InitDom /\ [][NextDom]_vars

(* ------------- the two paths on the same two-objective input ----------- *)
\* a study's trial list: trial i has number i - 1
Numbered(bodies) ==
    [i \in 1..Len(bodies) |->
        FrozenTrial(i - 1, bodies[i].state, bodies[i].values, bodies[i].constraints)]

\* COMPLETE trials with two values each (the first objective takes two values,
\* so that trials tie on it): unconstrained ones, infeasible ones, and a failed
\* trial without values
PathBodies ==
    {[state |-> "COMPLETE", values |-> Some(<<v0, v1>>), constraints |-> None] :
        v0 \in {0, 1}, v1 \in 0..MaxValue}
    \cup {[state |-> "COMPLETE", values |-> Some(<<v, v>>), constraints |-> Some(<<1>>)] :
        v \in {0, 1}}
    \cup {[state |-> "FAIL", values |-> None, constraints |-> None]}

InitPaths ==
    /\ trials \in {Numbered(b) : b \in SeqsUpTo(PathBodies, 0, MaxTrials)}
    /\ directions \in [1..2 -> StudyDirection]
    /\ consider_constraint \in BOOLEAN
    /\ NoCalls
    /\ NoSampler

Call2d ==
    /\ ~Called(ret2d)
    /\ ret2d' = _get_pareto_front_trials_2d(trials, directions, consider_constraint)
    /\ UNCHANGED <<trials, directions, consider_constraint, retDom, retNd, retFront, samplerVars>>

CallNd ==
    /\ ~Called(retNd)
    /\ retNd' = _get_pareto_front_trials_nd(trials, directions, consider_constraint)
    /\ UNCHANGED <<trials, directions, consider_constraint, retDom, ret2d, retFront, samplerVars>>

NextPaths == Call2d \/ CallNd
SpecPaths == InitPaths /\ [][NextPaths]_vars

(* ------------------- queries through the dispatcher -------------------- *)
Zeros(n) == [i \in 1..n |-> 0]

\* value vectors of length L: (a, 0, .., 0) and (0, a, .., a)
FrontValues(L) ==
    UNION {{[i \in 1..L |-> IF i = 1 THEN a ELSE 0],
            [i \in 1..L |-> IF i = 1 THEN 0 ELSE a]} : a \in 0..MaxFrontValue}

\* trials of a study with L objectives: well-formed COMPLETE trials, trials
\* with a stored constraint vector, COMPLETE trials whose value vector has the
\* wrong length, and trials that are not COMPLETE
FrontBodies(L) ==
    {[state |-> "COMPLETE", values |-> Some(v), constraints |-> None] : v \in FrontValues(L)}
    \cup {[state |-> "COMPLETE", values |-> Some(Zeros(L)), constraints |-> Some(<<0, 1>>)],
          [state |-> "COMPLETE", values |-> Some(Zeros(L)), constraints |-> Some(<<-1, 0>>)],
          [state |-> "COMPLETE", values |-> Some(Zeros(L + 1)), constraints |-> None],
          [state |-> "PRUNED", values |-> Some(Zeros(L)), constraints |-> None]}
    \cup (IF L >= 2
          THEN {[state |-> "COMPLETE", values |-> Some(Zeros(L - 1)), constraints |-> None]}
          ELSE {})

Numberings(n) == {f \in [1..n -> 0..(n - 1)] : \A i, j \in 1..n : f[i] = f[j] => i = j}

\* the caller may pass the trials in any order: trial i carries number f[i]
NumberedBy(bodies, f) ==
    [i \in 1..Len(bodies) |->
        FrozenTrial(f[i], bodies[i].state, bodies[i].values, bodies[i].constraints)]

FrontInputs(L) ==
    UNION {{NumberedBy(b, f) : f \in Numberings(Len(b))} :
              b \in SeqsUpTo(FrontBodies(L), 0, MaxFrontTrials)}

InitFront ==
    /\ directions \in SeqsUpTo(StudyDirection, 1, MaxDirs)
    /\ trials \in FrontInputs(Len(directions))
    /\ consider_constraint \in BOOLEAN
    /\ NoCalls
    /\ NoSampler

CallFront ==
    /\ ~Called(retFront)
    /\ retFront' = _get_pareto_front_trials_by_trials(trials, directions, consider_constraint)
    /\ UNCHANGED <<trials, directions, consider_constraint, retDom, ret2d, retNd, samplerVars>>

NextFront == CallFront
SpecFront == InitFront /\ [][NextFront]_vars

(* ------------------------ sampler construction ------------------------- *)
\* a run with two trials of generation 0, on which the constructed sampler is
\* first asked for the parents of generation 1
CtorStudy ==
    [EmptyStudy EXCEPT !.trials =
        <<[number |-> 0, generation |-> Some(0), told |-> TRUE],
          [number |-> 1, generation |-> Some(0), told |-> TRUE]>>]

\* an operation starts with no call made yet
NewOperation(st) == [st EXCEPT !.calls = <<>>]

InitCtor ==
    /\ NoQuery
    /\ ctor = NotCalled
    /\ sampler = None
    /\ study = CtorStudy
    /\ last = NoOperation

Construct(population_size, crossover, elite, child, after, uniform_n_parents) ==
    /\ ~Called(ctor)
    /\ LET r == __init__(population_size, crossover, elite, child, after, uniform_n_parents)
       IN /\ ctor' = [exc |-> r.exc,
                      val |-> [population_size |-> population_size,
                               crossover |-> IF crossover.kind = "None"
                                             THEN [kind |-> "None", n_parents |-> uniform_n_parents]
                                             ELSE crossover,
                               elite_population_selection_strategy |-> elite,
                               child_generation_strategy |-> child,
                               after_trial_strategy |-> after]]
          /\ sampler' = IF r.exc = "" THEN Some(r.val) ELSE None
    /\ UNCHANGED <<frontVars, study, last>>

SelectParentCall(generation, pick) ==
    /\ sampler.some
    /\ last.op = "none"
    /\ LET r == select_parent(sampler.val, NewOperation(study), generation, pick)
       IN /\ last' = [op |-> "select_parent", args |-> <<generation>>,
                      exc |-> r.exc, val |-> r.val]
          /\ study' = r.env
    /\ UNCHANGED <<frontVars, ctor, sampler>>

ElitePicks == {"none", "head", "tail"}

NextCtor ==
    \/ \E population_size \in 0..MaxPopulation, crossover \in CrossoverArgs,
          elite \in StrategyArgs, child \in StrategyArgs, after \in StrategyArgs,
          uniform_n_parents \in 1..MaxParents :
          Construct(population_size, crossover, elite, child, after, uniform_n_parents)
    \/ \E pick \in ElitePicks : SelectParentCall(1, pick)

SpecCtor == InitCtor /\ [][NextCtor]_vars

(* --------------------------- sampler run ------------------------------- *)
\* samplers built with the default crossover and strategies
InitSampler ==
    /\ NoQuery
    /\ \E population_size \in 2..MaxPopulation :
          LET r == __init__(population_size, [kind |-> "None", n_parents |-> 0],
                            "None", "None", "None", 2)
          IN /\ ctor = [exc |-> r.exc,
                        val |-> [population_size |-> population_size,
                                 crossover |-> [kind |-> "None", n_parents |-> 2],
                                 elite_population_selection_strategy |-> "None",
                                 child_generation_strategy |-> "None",
                                 after_trial_strategy |-> "None"]]
             /\ sampler = Some(r.val)
    /\ study = EmptyStudy
    /\ last = NoOperation

SearchSpaces == {{}, {"x"}}

\* (state, values) pairs a caller hands to after_trial
AfterArgs ==
    {<<"COMPLETE", Some(<<1>>)>>, <<"FAIL", None>>, <<"PRUNED", None>>, <<"RUNNING", None>>}

\* the study creates a trial, not yet tagged with a generation; told is the
\* study's record that it told the sampler the trial's final state
Ask ==
    /\ Len(study.trials) < MaxStudyTrials
    /\ study' = [study EXCEPT !.trials =
                    Append(@, [number |-> Len(study.trials), generation |-> None,
                               told |-> FALSE])]
    /\ UNCHANGED <<frontVars, ctor, sampler, last>>

\* a running trial asks for its relative parameters, once: the call tags it
\* with its generation
SampleRelative(number, search_space, advance, pick) ==
    /\ number + 1 \in 1..Len(study.trials)
    /\ ~study.trials[number + 1].told
    /\ ~study.trials[number + 1].generation.some
    /\ advance => MaxGenerationOf(study) < MaxGeneration
    /\ LET r == sample_relative(sampler.val, NewOperation(study), number, search_space,
                                advance, pick)
       IN /\ last' = [op |-> "sample_relative", args |-> <<number, search_space>>,
                      exc |-> r.exc, val |-> r.val]
          /\ study' = r.env
    /\ UNCHANGED <<frontVars, ctor, sampler>>

\* the study tells the sampler that the trial ended
AfterTrial(number, state, values) ==
    /\ number + 1 \in 1..Len(study.trials)
    /\ ~study.trials[number + 1].told
    /\ LET r == after_trial(sampler.val, NewOperation(study), number, state, values)
       IN /\ last' = [op |-> "after_trial", args |-> <<number, state, values>>,
                      exc |-> r.exc, val |-> r.val]
          /\ study' = IF r.exc = "" THEN [r.env EXCEPT !.trials[number + 1].told = TRUE]
                      ELSE r.env
    /\ UNCHANGED <<frontVars, ctor, sampler>>

NextSampler ==
    \/ Ask
    \/ \E number \in 0..(MaxStudyTrials - 1), search_space \in SearchSpaces,
          advance \in BOOLEAN, pick \in ElitePicks :
          SampleRelative(number, search_space, advance, pick)
    \/ \E number \in 0..(MaxStudyTrials - 1), a \in AfterArgs : AfterTrial(number, a[1], a[2])

SpecSampler == InitSampler /\ [][NextSampler]_vars

(* ============================ properties =============================== *)
trial0 == trials[1]
trial1 == trials[2]

\* the normalisation the contract names: v for MINIMIZE, -v for MAXIMIZE
Norm(v, d) == IF d = "MINIMIZE" THEN v ELSE 0 - v

\* Pareto dominance of value vector a over b under directions d
ParetoDominates(a, b, d) ==
    /\ \A i \in 1..Len(d) : Norm(a[i], d[i]) <= Norm(b[i], d[i])
    /\ \E i \in 1..Len(d) : Norm(a[i], d[i]) < Norm(b[i], d[i])

HasValuesFor(t, d) == t.values.some /\ Len(t.values.val) = Len(d)

\* C1: for two COMPLETE trials whose value vectors are as long as the
\* directions vector, _dominates returns true exactly when the first is no
\* worse on every objective and strictly better on one (after normalisation);
\* for equal normalised vectors it returns false in both argument orders.
C1_DominatesIsPareto ==
    (/\ Called(retDom)
     /\ trial0.state = COMPLETE /\ trial1.state = COMPLETE
     /\ HasValuesFor(trial0, directions) /\ HasValuesFor(trial1, directions))
    => /\ retDom = Return(ParetoDominates(trial0.values.val, trial1.values.val, directions))
       /\ (\A i \in 1..Len(directions) :
              Norm(trial0.values.val[i], directions[i]) = Norm(trial1.values.val[i], directions[i]))
          => retDom = Return(FALSE)

C1_Witness ==
    /\ retDom = Return(TRUE)
    /\ trial0.state = COMPLETE /\ trial1.state = COMPLETE
    /\ directions = <<"MAXIMIZE", "MINIMIZE">>
    /\ trial0.values.val[1] > trial1.values.val[1]
    /\ trial0.values.val[2] = trial1.values.val[2]

\* C5: _dominates(a, b) returns true when a is COMPLETE and b is not, and
\* false when a is not COMPLETE, also when the trial that is not COMPLETE has
\* no values recorded (values recorded are as long as the directions vector).
C5_NonCompleteShortCircuit ==
    (/\ Called(retDom)
     /\ trial0.values.some => Len(trial0.values.val) = Len(directions)
     /\ trial1.values.some => Len(trial1.values.val) = Len(directions))
    => /\ trial0.state # COMPLETE => retDom = Return(FALSE)
       /\ (trial0.state = COMPLETE /\ trial1.state # COMPLETE) => retDom = Return(TRUE)

\* the example of C6
IsExample(a, b) ==
    /\ directions = <<"MINIMIZE", "MAXIMIZE">>
    /\ a.state = COMPLETE /\ b.state = COMPLETE
    /\ a.values = Some(<<1, 5>>) /\ b.values = Some(<<2, 10>>)

\* C6 as stated: with directions [MINIMIZE, MAXIMIZE] the trial with values
\* (2, 10) dominates the trial with values (1, 5), and not the other way round.
C6_SecondDominatesFirst ==
    Called(retDom) =>
        /\ IsExample(trial1, trial0) => retDom = Return(TRUE)
        /\ IsExample(trial0, trial1) => retDom = Return(FALSE)

\* C6 amended: with directions [MINIMIZE, MAXIMIZE] neither of the trials
\* with values (1, 5) and (2, 10) dominates the other.
C6_NeitherDominates ==
    (Called(retDom) /\ (IsExample(trial1, trial0) \/ IsExample(trial0, trial1)))
    => retDom = Return(FALSE)

C6_Witness == IsExample(trial1, trial0) /\ retDom = Return(FALSE)

NumbersOf(ts) == {ts[i].number : i \in 1..Len(ts)}

\* C2: on a list of trials with two values each, the sweep and the pairwise
\* path return the same set of trial numbers for the same directions and flag.
C2_PathsAgree ==
    (Called(ret2d) /\ Called(retNd))
    => /\ Returned(ret2d) /\ Returned(retNd)
       /\ NumbersOf(ret2d.val) = NumbersOf(retNd.val)

\* two trials with equal vectors survive next to a trial that ties with a
\* dominated one on the first objective
C2_Witness ==
    /\ Returned(ret2d) /\ Returned(retNd)
    /\ Len(trials) = 3
    /\ Len(ret2d.val) = 2
    /\ ret2d.val[1].values = ret2d.val[2].values
    /\ \E i \in 1..3 : /\ trials[i].state = COMPLETE
                       /\ trials[i].number \notin NumbersOf(ret2d.val)
                       /\ trials[i].values.val[1] = ret2d.val[1].values.val[1]

Feasible(t) ==
    ~t.constraints.some \/ \A i \in 1..Len(t.constraints.val) : ~(t.constraints.val[i] > 0)

Unconstrained(ts) == [i \in 1..Len(ts) |-> FrozenTrial(ts[i].number, ts[i].state, ts[i].values, None)]

\* C3: a returned front holds only COMPLETE trials and, when
\* consider_constraint is true, only trials that have no constraint vector or
\* no component above 0; a COMPLETE trial without constraint vector that no
\* COMPLETE feasible trial dominates is in the front; when the flag is false
\* the front is the one the same trials give without their constraint vectors.
C3_FrontFiltersStateAndConstraints ==
    Returned(retFront) =>
        /\ \A i \in 1..Len(retFront.val) :
              /\ retFront.val[i].state = COMPLETE
              /\ consider_constraint => Feasible(retFront.val[i])
        /\ consider_constraint =>
              \A i \in 1..Len(trials) :
                 (/\ trials[i].state = COMPLETE
                  /\ ~trials[i].constraints.some
                  /\ ~\E j \in 1..Len(trials) :
                        /\ trials[j].state = COMPLETE
                        /\ Feasible(trials[j])
                        /\ ParetoDominates(trials[j].values.val, trials[i].values.val, directions))
                 => trials[i].number \in NumbersOf(retFront.val)
        /\ ~consider_constraint =>
              LET plain == _get_pareto_front_trials_by_trials(Unconstrained(trials), directions, FALSE)
              IN Returned(plain) /\ NumbersOf(plain.val) = NumbersOf(retFront.val)

\* an infeasible trial that dominates the whole front is left out
C3_Witness ==
    /\ Returned(retFront)
    /\ consider_constraint
    /\ Len(retFront.val) = 1
    /\ \E i \in 1..Len(trials) :
          /\ trials[i].state = COMPLETE
          /\ ~Feasible(trials[i])
          /\ HasValuesFor(trials[i], directions)
          /\ ParetoDominates(trials[i].values.val, retFront.val[1].values.val, directions)

\* C4: a returned front is in ascending order of trial number and holds no
\* trial number twice, whatever the order of the input list and the number of
\* objectives.
C4_FrontSortedByNumber ==
    Returned(retFront) =>
        \A i, j \in 1..Len(retFront.val) :
            i < j => retFront.val[i].number < retFront.val[j].number

\* C7: a query whose input holds a COMPLETE trial with a value vector of
\* another length than the directions vector raises (the trial counted only
\* when the feasibility filter, if requested, lets it through).
C7_MismatchRaises ==
    (/\ Called(retFront)
     /\ \E i \in 1..Len(trials) :
           /\ trials[i].state = COMPLETE
           /\ consider_constraint => Feasible(trials[i])
           /\ Len(trials[i].values.val) # Len(directions))
    => Raised(retFront)

\* the arguments C8 calls a misconfiguration
Misconfigured(a) ==
    \/ a.population_size < 2
    \/ a.crossover.kind = "other"
    \/ a.population_size < a.crossover.n_parents
    \/ a.elite_population_selection_strategy \in {"noncallable", "falsy"}
    \/ a.child_generation_strategy \in {"noncallable", "falsy"}

\* C8: constructing the sampler with population_size < 2, with a
\* population_size below the crossover's parent count, with a crossover that
\* is no crossover object, or with an invalid elite-selection or
\* child-generation override raises, and no sampler is created.
C8_ConstructionFailsFast ==
    (Called(ctor) /\ Misconfigured(ctor.val)) => (Raised(ctor) /\ sampler = None)

CallsTo(callee) == {i \in 1..Len(study.calls) : study.calls[i].callee = callee}

\* the memoised parent population of a generation
ParentPopulation(generation) == IF generation = 0 THEN <<>> ELSE study.cache[generation].val

\* C9: sample_relative returns an empty mapping without calling the
\* child-generation strategy when the parent population of the trial's
\* generation is empty (as it is for generation 0); otherwise it calls the
\* strategy once with (search space, parent population) and returns its
\* mapping; a parent population computed on the way is the elite-selection
\* strategy's result over population(g-1) followed by parent_population(g-1).
C9_SampleRelativeDelegates ==
    last.op = "sample_relative" =>
        LET number == last.args[1]
            search_space == last.args[2]
            generation == study.trials[number + 1].generation.val
            parents == ParentPopulation(generation)
        IN /\ last.exc = ""
           /\ generation = 0 => study.calls = <<>>
           /\ IF Len(parents) = 0
              THEN last.val = <<>> /\ CallsTo("child_generation_strategy") = {}
              ELSE \E i \in 1..Len(study.calls) :
                      /\ CallsTo("child_generation_strategy") = {i}
                      /\ study.calls[i].args = <<search_space, parents>>
                      /\ last.val = study.calls[i].result
           /\ \A i \in CallsTo("elite_population_selection_strategy") :
                 \E g \in 1..generation :
                    /\ study.calls[i].args =
                          <<get_population(study, g - 1) \o ParentPopulation(g - 1)>>
                    /\ study.cache[g] = Some(study.calls[i].result)

\* a trial of generation 2 whose parents were selected from the population of
\* generation 1 followed by the non-empty parents of generation 1
C9_Witness ==
    /\ last.op = "sample_relative"
    /\ last.exc = ""
    /\ study.trials[last.args[1] + 1].generation = Some(2)
    /\ Len(ParentPopulation(1)) > 0
    /\ CallsTo("elite_population_selection_strategy") # {}
    /\ CallsTo("child_generation_strategy") # {}
    /\ last.args[2] = {"x"}
    /\ last.val = [name \in {"x"} |-> ParentPopulation(2)[1]]

\* C10: after_trial with state COMPLETE, FAIL or PRUNED calls the after-trial
\* strategy and then the fallback sampler's after_trial, once each, with the
\* same trial, state and values; with another state it fails and calls neither.
C10_AfterTrialDelegates ==
    last.op = "after_trial" =>
        IF last.args[2] \in {"COMPLETE", "FAIL", "PRUNED"}
        THEN /\ last.exc = ""
             /\ Len(study.calls) = 2
             /\ study.calls[1].callee = "after_trial_strategy"
             /\ study.calls[2].callee = "random_sampler.after_trial"
             /\ study.calls[1].args = last.args
             /\ study.calls[2].args = last.args
        ELSE /\ last.exc = "AssertionError"
             /\ study.calls = <<>>
             /\ ~study.trials[last.args[1] + 1].told

C10_Witness ==
    /\ last.op = "after_trial"
    /\ last.args[2] = "PRUNED"
    /\ last.exc = ""
    /\ Len(study.calls) = 2
    /\ study.trials[last.args[1] + 1].told

====
